---------------------------- MODULE Spec2Model ----------------------------
(***************************************************************************)
(* State-machine model of custom_components/localtuya/switch.py:           *)
(*   - TuyaCache  : the status cache in front of one pytuya device handle  *)
(*                  (status(), __get_status(), set_status(), the Lock);    *)
(*   - TuyaDevice : the switch entity (update(), turn_on(), turn_off());   *)
(*   - async_setup_entry : which cache each entity is given.               *)
(* Worker threads of the host call update/turn_on/turn_off on the entities *)
(* concurrently; every statement that touches a shared attribute is a step *)
(* of its own.  Time is counted in half seconds (the shortest sleep of the *)
(* source is sleep(0.5)) and kept relative to the present: time() is 0, a  *)
(* time stamp taken k half seconds ago is -k.  The source only ever looks  *)
(* at "now - stamp > 15", so stamps older than the threshold are all kept  *)
(* as Past, and the stamp 0 of an empty entry (1970) as Zero, older still. *)
(* The clock is seen to advance across the sleeps of a call and between    *)
(* calls, when every thread is back in the host; the other statements,     *)
(* the device calls among them, take no time.  The device is an input: a   *)
(* call on it answers with any blob or raises, and what a write sets in it *)
(* is not kept, so turn_on and turn_off differ in their argument only.     *)
(***************************************************************************)
EXTENDS Integers, FiniteSets, TLC

(* ------------------------------ bounds -------------------------------- *)

\* Worker threads of the host that call into the entities.
NumThreads == 2

\* Calls (update / turn_on / turn_off) started over one run, and times the
\* clock is seen to advance outside a sleep, with calls overlapping.
MaxOps == 3
MaxTicks == 2

\* The same two with the calls made one at a time.
MaxSeqOps == 3
MaxSeqTicks == 3

\* The same two under a fair scheduler.
MaxLiveOps == 3
MaxLiveTicks == 1

(* ------------------------- program constants -------------------------- *)

\* "now - self._cached_status_time > 15": 15 s, in half seconds.
StaleTicks == 30

\* time(), in the frame of the present.
Now == 0

\* Any stamp older than the threshold.
Past == Now - (StaleTicks + 1)

\* self._cached_status_time = 0: the Unix epoch, far older than any stamp
\* taken while the program runs.
Zero == Past - 1

\* sleep(0.5) before a live fetch, in half seconds.
SettleTicks == 1

\* sleep(1.0) after a failed fetch, in half seconds.
RetryTicks == 2

\* "for i in range(5)" of __get_status and of set_status.
LoopRange == 5

\* "if i + 1 == 3" of __get_status and of set_status.
GiveUpAt == 3

\* self._cached_status = "" ; also the truth value Python gives it.
Empty == ""

\* Python's None.
None == "None"

\* The values of a switch data point.
True == "True"
False == "False"

(* ----------------------- configuration, inputs ------------------------ *)

Threads == 1..NumThreads

\* The entities of the sample configuration: sw01 (id 1) and sw02 (id 7).
Adapters == {"sw01", "sw02"}

\* device_config[CONF_ID] of each entity.
switch_id(a) == IF a = "sw01" THEN "1" ELSE "7"

\* async_setup_entry builds TuyaCache(device) inside the loop over the
\* entities: every entity gets a cache (and a lock) of its own, all of
\* them in front of the same device handle.
CacheOf(a) == a

Caches == {CacheOf(a) : a \in Adapters}

\* ATTR_CURRENT, ATTR_CURRENT_CONSUMPTION, ATTR_VOLTAGE
AttrNames == {"current", "current_consumption", "voltage"}

\* device_config.get(CONF_CURRENT) and the like: sw01 names data points
\* 18, 19 and 20, sw02 names none.
attr(a, n) ==
  IF a = "sw01"
    THEN CASE n = "current" -> "18"
           [] n = "current_consumption" -> "19"
           [] n = "voltage" -> "20"
    ELSE None

\* The status blobs the device handle may answer with.  b2 lacks data
\* points 7, 19 and 20 (a device that reports neither the second outlet
\* nor power and voltage).
Blobs == {"b1", "b2"}

\* blob["dps"]
dps(b) ==
  CASE b = "b1" -> ("1" :> True @@ "7" :> False @@
                    "18" :> 5 @@ "19" :> 120 @@ "20" :> 2300)
    [] b = "b2" -> ("1" :> False @@ "18" :> 5)

\* Steps by which the clock is seen to advance outside a sleep: the
\* shortest sleep of the source and one step short of the staleness
\* threshold.
TickSteps == {SettleTicks, StaleTicks - 1}

\* The error records of the cache: "Failed to update status of device"
\* and "Failed to set status of device".
Messages == {"update", "set"}

Max(x, y) == IF x >= y THEN x ELSE y

\* The stamp x after d more half seconds have passed.
Back(x, d) == IF x = Zero THEN Zero ELSE Max(x - d, Past)

(* ------------------------------- state -------------------------------- *)

VARIABLES
  elapsed,             \* how long the last step took
  cached_status,       \* TuyaCache._cached_status, per cache
  cached_status_time,  \* TuyaCache._cached_status_time, per cache
  lock,                \* TuyaCache._lock: the holding thread, 0 when free
  available,           \* TuyaDevice._available, per entity
  status,              \* TuyaDevice._status, per entity
  state,               \* TuyaDevice._state, per entity
  pc,                  \* where each thread stands
  self,                \* the entity the thread's call is on
  i,                   \* the index of the retry loop the thread is in
  wake,                \* how long the thread's sleep() still lasts
  errors,              \* records written by _LOGGER.error, per message
  \* History, written by the observers below and read by the properties:
  ops,                 \* calls started so far
  ticks,               \* clock advances outside a sleep so far
  solo,                \* no other call has run on the cache of the call
  invalidated,         \* a set_status returned, no status() started since
  owed,                \* the thread's status() is the first after one
  chain,               \* the run of status() calls on the cache
  fetched,             \* time of the last good fetch since the last write
  last                 \* how the entity's last completed refresh ended

vars == <<elapsed, cached_status, cached_status_time, lock, available,
          status, state, pc, self, i, wake, errors, ops, ticks, solo,
          invalidated, owed, chain, fetched, last>>

cache(t) == CacheOf(self[t])

\* "not x" of Python for the values the cache may hold.
Falsy(x) == x \in {Empty, None}

\* No run of status() calls is under way on the cache.
NoChain == [at |-> Zero, blob |-> Empty, close |-> FALSE]

Init ==
  /\ elapsed = 0
  /\ cached_status = [c \in Caches |-> Empty]
  /\ cached_status_time = [c \in Caches |-> Zero]
  /\ lock = [c \in Caches |-> 0]
  /\ available = [a \in Adapters |-> FALSE]
  /\ status = [a \in Adapters |-> None]
  /\ state = [a \in Adapters |-> None]
  /\ pc = [t \in Threads |-> "idle"]
  /\ self = [t \in Threads |-> "sw01"]
  /\ i = [t \in Threads |-> -1]
  /\ wake = [t \in Threads |-> 0]
  /\ errors = [m \in Messages |-> 0]
  /\ ops = 0
  /\ ticks = 0
  /\ solo = [t \in Threads |-> FALSE]
  /\ invalidated = [c \in Caches |-> FALSE]
  /\ owed = [t \in Threads |-> FALSE]
  /\ chain = [c \in Caches |-> NoChain]
  /\ fetched = Zero
  /\ last = [a \in Adapters |-> "none"]

\* d half seconds pass: every stamp is d older, every sleep d shorter.
Elapse(d) ==
  /\ elapsed' = d
  /\ cached_status_time' =
       [c \in Caches |-> Back(cached_status_time[c], d)]
  /\ wake' = [u \in Threads |-> Max(wake[u] - d, 0)]

\* A step that takes no time.
NoTime == elapsed' = 0

\* The call is over: the thread is back in the host, its locals gone.
Finish(t) ==
  /\ pc' = [pc EXCEPT ![t] = "idle"]
  /\ self' = [self EXCEPT ![t] = "sw01"]
  /\ i' = [i EXCEPT ![t] = -1]

(* ------------------------------ the clock ----------------------------- *)

\* Time is seen to pass across the sleeps of a call, and by d between
\* calls, when every thread is back in the host.
Tick(d) ==
  /\ \A t \in Threads : pc[t] = "idle"
  /\ Elapse(d)
  /\ UNCHANGED <<cached_status, lock, available, status, state, pc, self, i,
                 errors>>

(* ---------------- TuyaDevice.update and TuyaCache.status -------------- *)

\* The scheduler calls update(): it enters self._device.status() and
\* stands at self._lock.acquire().
update(t, a) ==
  /\ pc[t] = "idle"
  /\ pc' = [pc EXCEPT ![t] = "acquire"]
  /\ self' = [self EXCEPT ![t] = a]
  /\ NoTime
  /\ UNCHANGED <<cached_status, cached_status_time, lock, available,
                 status, state, i, wake, errors>>

\* A mutation of the staleness test: the entry's age is not looked at.
NeedsRefreshNoAge(c) == Falsy(cached_status[c])

\* A mutation of the staleness test: ">=" for ">".
NeedsRefreshAtThreshold(c) ==
  Falsy(cached_status[c]) \/ Now - cached_status_time[c] >= StaleTicks

\* The staleness test of status() (line 175).
NeedsRefresh(c) ==
  Falsy(cached_status[c]) \/ Now - cached_status_time[c] > StaleTicks

\* status(): acquire the lock, read the clock, test the entry; on a stale
\* or empty entry go to sleep(0.5), else go to the return statement.
status_test(t) ==
  /\ pc[t] = "acquire"
  /\ lock[cache(t)] = 0
  /\ lock' = [lock EXCEPT ![cache(t)] = t]
  /\ IF NeedsRefresh(cache(t))
       THEN /\ pc' = [pc EXCEPT ![t] = "settle"]
            /\ wake' = [wake EXCEPT ![t] = Now + SettleTicks]
       ELSE /\ pc' = [pc EXCEPT ![t] = "return"]
            /\ UNCHANGED wake
  /\ NoTime
  /\ UNCHANGED <<cached_status, cached_status_time, available, status,
                 state, self, i, errors>>

\* sleep(0.5) is over, the clock having reached its end at least:
\* __get_status enters its loop and calls self._device.status() for the
\* first time.
get_status_begin(t) ==
  /\ pc[t] = "settle"
  /\ Elapse(wake[t])
  /\ pc' = [pc EXCEPT ![t] = "fetch"]
  /\ i' = [i EXCEPT ![t] = 0]
  /\ UNCHANGED <<cached_status, lock, available, status, state, self, errors>>

\* The device answers with blob b: __get_status returns it and status()
\* stores it (line 177).
get_status_ok(t, b) ==
  /\ pc[t] = "fetch"
  /\ cached_status' = [cached_status EXCEPT ![cache(t)] = b]
  /\ pc' = [pc EXCEPT ![t] = "stamp"]
  /\ NoTime
  /\ UNCHANGED <<cached_status_time, lock, available, status, state,
                 self, i, wake, errors>>

\* The device call raises: __get_status goes to sleep(1.0).
get_status_fail(t) ==
  /\ pc[t] = "fetch"
  /\ pc' = [pc EXCEPT ![t] = "backoff"]
  /\ wake' = [wake EXCEPT ![t] = Now + RetryTicks]
  /\ NoTime
  /\ UNCHANGED <<cached_status, cached_status_time, lock, available,
                 status, state, self, i, errors>>

\* A mutation of the except branch of update(): it also forgets the last
\* state.
UpdateExceptClears(a) ==
  /\ available' = [available EXCEPT ![a] = FALSE]
  /\ state' = [state EXCEPT ![a] = None]
  /\ UNCHANGED status

\* except Exception: self._available = False   (lines 258-259)
UpdateExcept(a) ==
  /\ available' = [available EXCEPT ![a] = FALSE]
  /\ UNCHANGED <<status, state>>

\* A mutation of the give-up branch of __get_status: the commented-out
\* "return None" after the error record; status() stores the None
\* (line 177).
GetStatusNone(t) ==
  /\ errors' = [errors EXCEPT !["update"] = @ + 1]
  /\ cached_status' = [cached_status EXCEPT ![cache(t)] = None]
  /\ pc' = [pc EXCEPT ![t] = "stamp"]
  /\ UNCHANGED <<lock, available, status, state, self, i>>

\* A mutation of the give-up branch of __get_status: the blob is dropped
\* from the cache before the raise.
GetStatusRaiseClears(t) ==
  /\ errors' = [errors EXCEPT !["update"] = @ + 1]
  /\ lock' = [lock EXCEPT ![cache(t)] = 0]
  /\ cached_status' = [cached_status EXCEPT ![cache(t)] = Empty]
  /\ UpdateExcept(self[t])
  /\ Finish(t)

\* A mutation of status(): no finally clause, so the exception leaves
\* with the lock held.
GetStatusRaiseHolds(t) ==
  /\ errors' = [errors EXCEPT !["update"] = @ + 1]
  /\ UpdateExcept(self[t])
  /\ Finish(t)
  /\ UNCHANGED <<cached_status, lock>>

\* _LOGGER.error and "raise ConnectionError" (lines 145-149): the
\* exception leaves __get_status and status(), whose finally clause
\* releases the lock, and reaches the except branch of update().
GetStatusRaise(t) ==
  /\ errors' = [errors EXCEPT !["update"] = @ + 1]
  /\ lock' = [lock EXCEPT ![cache(t)] = 0]
  /\ UpdateExcept(self[t])
  /\ Finish(t)
  /\ UNCHANGED cached_status

\* sleep(1.0) is over: give up at i + 1 == 3, else go round the loop and
\* call the device again.
get_status_retry(t) ==
  /\ pc[t] = "backoff"
  /\ Elapse(wake[t])
  /\ IF i[t] + 1 = GiveUpAt
       THEN GetStatusRaise(t)
       ELSE IF i[t] + 1 < LoopRange
         THEN /\ i' = [i EXCEPT ![t] = i[t] + 1]
              /\ pc' = [pc EXCEPT ![t] = "fetch"]
              /\ UNCHANGED <<cached_status, lock, available, status, state,
                             self, errors>>
         ELSE \* the loop ran out: __get_status returns None, which
              \* status() stores (line 177)
              /\ cached_status' = [cached_status EXCEPT ![cache(t)] = None]
              /\ pc' = [pc EXCEPT ![t] = "stamp"]
              /\ UNCHANGED <<lock, available, status, state, self, i,
                             errors>>

\* self._cached_status_time = time()   (line 178)
status_stamp(t) ==
  /\ pc[t] = "stamp"
  /\ cached_status_time' = [cached_status_time EXCEPT ![cache(t)] = Now]
  /\ pc' = [pc EXCEPT ![t] = "return"]
  /\ NoTime
  /\ UNCHANGED <<cached_status, lock, available, status, state, self,
                 i, wake, errors>>

\* A mutation of status(): release() is called on the exception path
\* only, so a call that returns keeps the lock.
StatusReturnHolds(t) ==
  /\ pc[t] = "return"
  /\ status' = [status EXCEPT ![self[t]] = cached_status[cache(t)]]
  /\ pc' = [pc EXCEPT ![t] = "extract"]
  /\ i' = [i EXCEPT ![t] = -1]
  /\ NoTime
  /\ UNCHANGED <<cached_status, cached_status_time, lock, available, state,
                 self, wake, errors>>

\* return self._cached_status (line 179), the finally clause releases the
\* lock, and update() stores the result in self._status (line 256).
status_return(t) ==
  /\ pc[t] = "return"
  /\ lock' = [lock EXCEPT ![cache(t)] = 0]
  /\ status' = [status EXCEPT ![self[t]] = cached_status[cache(t)]]
  /\ pc' = [pc EXCEPT ![t] = "extract"]
  /\ i' = [i EXCEPT ![t] = -1]
  /\ NoTime
  /\ UNCHANGED <<cached_status, cached_status_time, available, state,
                 self, wake, errors>>

\* self._status["dps"][self._switch_id] can be evaluated.
HasSwitch(s, a) == s \in Blobs /\ switch_id(a) \in DOMAIN dps(s)

\* self._state = self._status["dps"][self._switch_id]   (line 257); a
\* blob without the key, "" or None raises, which leads to the except
\* branch.
update_state(t) ==
  /\ pc[t] = "extract"
  /\ IF HasSwitch(status[self[t]], self[t])
       THEN /\ state' = [state EXCEPT
                           ![self[t]] = dps(status[self[t]])[switch_id(self[t])]]
            /\ pc' = [pc EXCEPT ![t] = "else"]
       ELSE /\ pc' = [pc EXCEPT ![t] = "except"]
            /\ UNCHANGED state
  /\ NoTime
  /\ UNCHANGED <<cached_status, cached_status_time, lock, available,
                 status, self, i, wake, errors>>

update_except(t) ==
  /\ pc[t] = "except"
  /\ UpdateExcept(self[t])
  /\ Finish(t)
  /\ NoTime
  /\ UNCHANGED <<cached_status, cached_status_time, lock, wake, errors>>

\* A mutation of the else branch of update(): the flag is not raised.
UpdateElseKeeps(a) == UNCHANGED <<available, status, state>>

\* else: self._available = True   (lines 260-261)
UpdateElse(a) ==
  /\ available' = [available EXCEPT ![a] = TRUE]
  /\ UNCHANGED <<status, state>>

update_else(t) ==
  /\ pc[t] = "else"
  /\ UpdateElse(self[t])
  /\ Finish(t)
  /\ NoTime
  /\ UNCHANGED <<cached_status, cached_status_time, lock, wake, errors>>

(* ---------------- TuyaDevice.device_state_attributes ------------------ *)

\* self._status["dps"][k] can be evaluated.
HasPoint(s, k) == s \in Blobs /\ k \in DOMAIN dps(s)

\* The attributes the entity is set up with ("if self._attr_current:").
Wanted(a) == {n \in AttrNames : attr(a, n) # None}

\* A mutation of device_state_attributes: a data point the blob lacks is
\* left out of the result (dict.get and a test, in place of the
\* subscript).
DeviceStateAttributesSkips(a) ==
  [raised |-> FALSE,
   attrs |-> [n \in {m \in Wanted(a) : HasPoint(status[a], attr(a, m))} |->
                IF n = "current"
                  THEN dps(status[a])[attr(a, n)]
                  ELSE dps(status[a])[attr(a, n)] \div 10]]

\* The property device_state_attributes (lines 232-243): what reading it
\* gives in the present state.  A subscript that cannot be evaluated
\* raises out of the property; nothing there catches it.
device_state_attributes(a) ==
  IF \E n \in Wanted(a) : ~HasPoint(status[a], attr(a, n))
    THEN [raised |-> TRUE, attrs |-> <<>>]
    ELSE [raised |-> FALSE,
          attrs |-> [n \in Wanted(a) |->
                       IF n = "current"
                         THEN dps(status[a])[attr(a, n)]
                         ELSE dps(status[a])[attr(a, n)] \div 10]]

(* ------- TuyaDevice.turn_on / turn_off and TuyaCache.set_status ------- *)

\* A mutation of turn_on/turn_off: the entity takes the commanded state
\* as its own at once.
TurnOptimistic(a, st) ==
  /\ state' = [state EXCEPT ![a] = st]
  /\ UNCHANGED <<available, status>>

\* turn_on/turn_off only hand st on to set_status; nothing of the entity
\* is assigned (lines 245-251).
Turn(a, st) == UNCHANGED <<available, status, state>>

\* The call enters TuyaCache.set_status(st, self._switch_id); no lock is
\* taken there.  st goes to the device and nowhere else.
SetStatusCall(t, a, st) ==
  /\ pc[t] = "idle"
  /\ pc' = [pc EXCEPT ![t] = "clear"]
  /\ self' = [self EXCEPT ![t] = a]
  /\ Turn(a, st)
  /\ NoTime
  /\ UNCHANGED <<cached_status, cached_status_time, lock, i, wake, errors>>

turn_on(t, a) == SetStatusCall(t, a, True)

turn_off(t, a) == SetStatusCall(t, a, False)

\* self._cached_status = ""   (line 153)
SetStatusClear(c) == cached_status' = [cached_status EXCEPT ![c] = Empty]

set_status_clear(t) ==
  /\ pc[t] = "clear"
  /\ SetStatusClear(cache(t))
  /\ pc' = [pc EXCEPT ![t] = "unstamp"]
  /\ NoTime
  /\ UNCHANGED <<cached_status_time, lock, available, status, state,
                 self, i, wake, errors>>

\* self._cached_status_time = 0   (line 154), then the loop calls
\* self._device.set_status for the first time.
set_status_unstamp(t) ==
  /\ pc[t] = "unstamp"
  /\ cached_status_time' = [cached_status_time EXCEPT ![cache(t)] = Zero]
  /\ pc' = [pc EXCEPT ![t] = "write"]
  /\ i' = [i EXCEPT ![t] = 0]
  /\ NoTime
  /\ UNCHANGED <<cached_status, lock, available, status, state, self,
                 wake, errors>>

\* A mutation of the give-up branch of set_status: the commented-out
\* raise ConnectionError("Failed to set status."), which leaves turn_on
\* or turn_off as an exception in the host's thread.
SetStatusGiveUpRaises(t) ==
  /\ errors' = [errors EXCEPT !["set"] = @ + 1]
  /\ pc' = [pc EXCEPT ![t] = "crashed"]
  /\ UNCHANGED <<self, i>>

\* A mutation of the give-up branch of set_status: no return, the loop
\* goes on to its end.
SetStatusGoesOn(t) ==
  /\ i' = [i EXCEPT ![t] = i[t] + 1]
  /\ UNCHANGED <<pc, self, errors>>

\* _LOGGER.error and "return" at i + 1 == 3 (lines 163-166): set_status
\* returns to turn_on or turn_off, which returns to the host.
SetStatusGiveUp(t) ==
  /\ errors' = [errors EXCEPT !["set"] = @ + 1]
  /\ Finish(t)

\* The device write succeeded: set_status returns its result (line 157).
set_status_ok(t) ==
  /\ pc[t] = "write"
  /\ Finish(t)
  /\ NoTime
  /\ UNCHANGED <<cached_status, cached_status_time, lock, available,
                 status, state, wake, errors>>

\* The device write raised: return at i + 1 == 3, else call again at
\* once; a loop that ran out returns too.
set_status_fail(t) ==
  /\ pc[t] = "write"
  /\ IF i[t] + 1 = GiveUpAt
       THEN SetStatusGiveUp(t)
       ELSE IF i[t] + 1 < LoopRange
         THEN /\ i' = [i EXCEPT ![t] = i[t] + 1]
              /\ UNCHANGED <<pc, self, errors>>
         ELSE Finish(t) /\ UNCHANGED errors
  /\ NoTime
  /\ UNCHANGED <<cached_status, cached_status_time, lock, available,
                 status, state, wake>>

(* ------------------------------ the steps ------------------------------ *)

\* What a step is, read off the threads' positions before and after it.
Started(t) == pc[t] = "idle" /\ pc'[t] # "idle"
Finished(t) == pc[t] # "idle" /\ pc'[t] = "idle"
StatusStarted(t) == pc[t] = "idle" /\ pc'[t] = "acquire"
StatusTested(t) == pc[t] = "acquire" /\ pc'[t] # "acquire"
StatusFetched(t) == pc[t] = "fetch" /\ pc'[t] = "stamp"
StatusRaised(t) == pc[t] = "backoff" /\ pc'[t] = "idle"
StatusReturned(t) == pc[t] = "return" /\ pc'[t] = "extract"
SetStatusStarted(t) == pc[t] = "idle" /\ pc'[t] = "clear"
SetStatusReturned(t) == pc[t] = "write" /\ pc'[t] = "idle"
RefreshFailed(t) == StatusRaised(t) \/ (pc[t] = "except" /\ pc'[t] = "idle")
RefreshSucceeded(t) == pc[t] = "else" /\ pc'[t] = "idle"
CommandStep(t) ==
  \/ SetStatusStarted(t)
  \/ /\ pc[t] \in {"clear", "unstamp", "write"}
     /\ (pc'[t] # pc[t] \/ i'[t] # i[t])
StatusStep(t) ==
  \/ StatusStarted(t)
  \/ /\ pc[t] \in {"acquire", "settle", "fetch", "backoff", "stamp"}
     /\ (pc'[t] # pc[t] \/ i'[t] # i[t])
AllIdle == \A t \in Threads : pc[t] = "idle"

\* A device call of the thread is in flight.
InFetch(t) == pc[t] = "fetch"
InWrite(t) == pc[t] = "write"

(* ------------------------------ observers ------------------------------ *)

Count ==
  /\ ops' = IF \E t \in Threads : Started(t) THEN ops + 1 ELSE ops
  /\ ticks' = IF elapsed' # 0 /\ pc' = pc THEN ticks + 1 ELSE ticks

\* A call is the only one running on its cache if no other thread is in
\* a call on that cache when it starts and none starts one before it ends.
Alone ==
  solo' = [t \in Threads |->
             IF Started(t)
               THEN \A v \in Threads \ {t} :
                      pc[v] = "idle" \/ cache(v) # CacheOf(self'[t])
             ELSE IF \/ Finished(t)
                     \/ \E u \in Threads \ {t} :
                          Started(u) /\ CacheOf(self'[u]) = cache(t)
               THEN FALSE
               ELSE solo[t]]

\* A returned set_status is owed a live fetch by the next status() call
\* that starts on its cache.
Owing ==
  /\ invalidated' = [c \in Caches |->
       IF \E t \in Threads : SetStatusReturned(t) /\ cache(t) = c THEN TRUE
       ELSE IF \E t \in Threads : StatusStarted(t) /\ CacheOf(self'[t]) = c
         THEN FALSE
         ELSE invalidated[c]]
  /\ owed' = [t \in Threads |->
       IF StatusStarted(t) THEN invalidated[CacheOf(self'[t])]
       ELSE IF Finished(t) THEN FALSE
       ELSE owed[t]]

\* The run of status() calls on a cache since the last set_status and
\* the last call that raised: when its latest call read the clock (Zero:
\* no call yet), the blob of its latest live fetch (Empty: none yet), and
\* whether every call since the one that made that fetch read the clock
\* less than 15 s after the call before it.
Chaining ==
  chain' = [c \in Caches |->
    IF \E t \in Threads : cache(t) = c /\
         (pc[t] \in {"clear", "unstamp"} \/ StatusRaised(t))
      THEN NoChain
    ELSE IF \E t \in Threads : cache(t) = c /\ StatusTested(t)
      THEN [chain[c] EXCEPT
              !.at = Now,
              !.close = IF \E t \in Threads : cache(t) = c /\ pc'[t] = "settle"
                          THEN TRUE
                          ELSE chain[c].close /\ Now - chain[c].at < StaleTicks]
    ELSE IF \E t \in Threads : cache(t) = c /\ StatusReturned(t) /\ i[t] >= 0
      THEN [chain[c] EXCEPT !.blob = cached_status[c]]
    ELSE [chain[c] EXCEPT !.at = Back(chain[c].at, elapsed')]]

\* The time of the last good fetch from the device since the last call of
\* set_status.
Fetching ==
  fetched' = IF \E t \in Threads : SetStatusStarted(t) THEN Zero
             ELSE IF \E t \in Threads : StatusFetched(t) THEN Now
             ELSE Back(fetched, elapsed')

\* How the last completed refresh of each entity ended.
Outcome ==
  last' = [a \in Adapters |->
    IF \E t \in Threads : self[t] = a /\ RefreshFailed(t) THEN "failed"
    ELSE IF \E t \in Threads : self[t] = a /\ RefreshSucceeded(t) THEN "ok"
    ELSE last[a]]

(* --------------------------- specification ---------------------------- *)

\* What the observers record of a step with the calls overlapping, and
\* how far such a run goes.
Watch ==
  /\ Count /\ ops' <= MaxOps /\ ticks' <= MaxTicks
  /\ Alone /\ Owing /\ Outcome
  /\ UNCHANGED <<chain, fetched>>

\* The threads call into the entities as they please.
Next ==
  \/ \E t \in Threads, a \in Adapters : update(t, a) /\ Watch
  \/ \E t \in Threads, a \in Adapters : turn_on(t, a) /\ Watch
  \/ \E t \in Threads, a \in Adapters : turn_off(t, a) /\ Watch
  \/ \E t \in Threads : status_test(t) /\ Watch
  \/ \E t \in Threads : get_status_begin(t) /\ Watch
  \/ \E t \in Threads, b \in Blobs : get_status_ok(t, b) /\ Watch
  \/ \E t \in Threads : get_status_fail(t) /\ Watch
  \/ \E t \in Threads : get_status_retry(t) /\ Watch
  \/ \E t \in Threads : status_stamp(t) /\ Watch
  \/ \E t \in Threads : status_return(t) /\ Watch
  \/ \E t \in Threads : update_state(t) /\ Watch
  \/ \E t \in Threads : update_except(t) /\ Watch
  \/ \E t \in Threads : update_else(t) /\ Watch
  \/ \E t \in Threads : set_status_clear(t) /\ Watch
  \/ \E t \in Threads : set_status_unstamp(t) /\ Watch
  \/ \E t \in Threads : set_status_ok(t) /\ Watch
  \/ \E t \in Threads : set_status_fail(t) /\ Watch
  \/ \E d \in TickSteps : Tick(d) /\ Watch

Spec == Init /\ [][Next]_vars

\* The same with the calls made one at a time.
SeqWatch ==
  /\ \A t \in Threads : Started(t) => \A u \in Threads : pc[u] = "idle"
  /\ Count /\ ops' <= MaxSeqOps /\ ticks' <= MaxSeqTicks
  /\ Alone /\ Owing /\ Outcome /\ Chaining /\ Fetching

\* The host makes one call at a time.
SeqNext ==
  \/ \E t \in Threads, a \in Adapters : update(t, a) /\ SeqWatch
  \/ \E t \in Threads, a \in Adapters : turn_on(t, a) /\ SeqWatch
  \/ \E t \in Threads, a \in Adapters : turn_off(t, a) /\ SeqWatch
  \/ \E t \in Threads : status_test(t) /\ SeqWatch
  \/ \E t \in Threads : get_status_begin(t) /\ SeqWatch
  \/ \E t \in Threads, b \in Blobs : get_status_ok(t, b) /\ SeqWatch
  \/ \E t \in Threads : get_status_fail(t) /\ SeqWatch
  \/ \E t \in Threads : get_status_retry(t) /\ SeqWatch
  \/ \E t \in Threads : status_stamp(t) /\ SeqWatch
  \/ \E t \in Threads : status_return(t) /\ SeqWatch
  \/ \E t \in Threads : update_state(t) /\ SeqWatch
  \/ \E t \in Threads : update_except(t) /\ SeqWatch
  \/ \E t \in Threads : update_else(t) /\ SeqWatch
  \/ \E t \in Threads : set_status_clear(t) /\ SeqWatch
  \/ \E t \in Threads : set_status_unstamp(t) /\ SeqWatch
  \/ \E t \in Threads : set_status_ok(t) /\ SeqWatch
  \/ \E t \in Threads : set_status_fail(t) /\ SeqWatch
  \/ \E d \in TickSteps : Tick(d) /\ SeqWatch

SeqSpec == Init /\ [][SeqNext]_vars

\* The calls overlapping, under a fair scheduler: only the calls and the
\* clock are counted.
LiveWatch ==
  /\ Count /\ ops' <= MaxLiveOps /\ ticks' <= MaxLiveTicks
  /\ UNCHANGED <<solo, invalidated, owed, chain, fetched, last>>

\* The next statement of the call thread t is in, the ways it may go.  A
\* thread at acquire() can take it when the lock is free; a device call
\* ends, with an answer or with an exception; a sleep ends.
Step(t) ==
  \/ status_test(t) /\ LiveWatch
  \/ get_status_begin(t) /\ LiveWatch
  \/ (\E b \in Blobs : get_status_ok(t, b)) /\ LiveWatch
  \/ get_status_fail(t) /\ LiveWatch
  \/ get_status_retry(t) /\ LiveWatch
  \/ status_stamp(t) /\ LiveWatch
  \/ status_return(t) /\ LiveWatch
  \/ update_state(t) /\ LiveWatch
  \/ update_except(t) /\ LiveWatch
  \/ update_else(t) /\ LiveWatch
  \/ set_status_clear(t) /\ LiveWatch
  \/ set_status_unstamp(t) /\ LiveWatch
  \/ set_status_ok(t) /\ LiveWatch
  \/ set_status_fail(t) /\ LiveWatch

LiveNext ==
  \/ \E t \in Threads, a \in Adapters : update(t, a) /\ LiveWatch
  \/ \E t \in Threads, a \in Adapters : turn_on(t, a) /\ LiveWatch
  \/ \E t \in Threads, a \in Adapters : turn_off(t, a) /\ LiveWatch
  \/ \E t \in Threads : Step(t)
  \/ \E d \in TickSteps : Tick(d) /\ LiveWatch

\* The scheduler lets every thread that can run its next statement run
\* it in the end; the host need not make any call.
LiveSpec ==
  Init /\ [][LiveNext]_vars /\ \A t \in Threads : WF_vars(Step(t))

(* ----------------------------- properties ------------------------------ *)

\* C1 -- mutual exclusion on one cache: no two threads are inside a device
\* call of the same cache (a fetch of status() or a write of set_status())
\* at the same time.  set_status() takes no lock, so a write overlaps a
\* fetch, or another write.
C1_OneAtATime ==
  \A t, u \in Threads :
    (t # u /\ cache(t) = cache(u)) =>
      ~((InFetch(t) \/ InWrite(t)) /\ (InFetch(u) \/ InWrite(u)))

\* C2 -- invalidation: the first status() call that starts on a cache
\* after a set_status() on it returned never stands at its return
\* statement without having been through the fetch loop.
C2_NextStatusFetches ==
  \A t \in Threads : ~(owed[t] /\ pc[t] = "return" /\ i[t] = -1)

\* C3 as the specification states it -- with the calls made one at a
\* time: in a run of status() calls on one cache that began with a live
\* fetch, with no set_status() and no raising call since, and in which
\* every call read the clock less than 15 s after the call before it,
\* every call after the first makes no device call and finds the blob of
\* that fetch.
C3_CallsApart ==
  [][\A t \in Threads :
       (/\ StatusTested(t)
        /\ chain[cache(t)].blob # Empty
        /\ chain[cache(t)].close
        /\ Now - chain[cache(t)].at < StaleTicks)
       => /\ pc'[t] = "return"
          /\ cached_status[cache(t)] = chain[cache(t)].blob]_vars

\* C3 as the code has it -- with the calls made one at a time: after a
\* live fetch on a cache, and until a set_status() or a raising call on
\* it, a status() call that reads the clock at most 15 s after the stamp
\* of the entry makes no device call and returns the blob of that fetch;
\* one that reads it later than that fetches again, however closely it
\* follows the call before it.
C3_StampAge ==
  [][\A t \in Threads :
       /\ (StatusTested(t) /\ chain[cache(t)].blob # Empty) =>
            IF Now - cached_status_time[cache(t)] <= StaleTicks
              THEN /\ pc'[t] = "return"
                   /\ cached_status[cache(t)] = chain[cache(t)].blob
              ELSE pc'[t] = "settle"
       /\ (StatusReturned(t) /\ i[t] = -1) =>
            /\ chain[cache(t)].blob # Empty
            /\ status'[self[t]] = chain[cache(t)].blob]_vars

\* A call is served from an entry that is some time old already.
C3_Witness ==
  \E t \in Threads :
    /\ pc[t] = "return" /\ i[t] = -1
    /\ chain[cache(t)].blob \in Blobs
    /\ cached_status_time[cache(t)] < Now
    /\ ops >= 2

\* C4 -- retry budget: a status() call raises only when the fifth fetch
\* attempt (the last of the loop) has failed.
C4_FiveAttempts ==
  [][\A t \in Threads : StatusRaised(t) => i[t] + 1 = LoopRange]_vars

\* C5 -- failure semantics of status(): a call whose fetch loop ends
\* without a blob from the device ends by raising; the raise hands no
\* blob to update() and leaves the blob of every cache as it was, an
\* empty entry empty; and an empty entry is filled by nothing but a
\* successful fetch of a call on that cache.
C5_RaiseKeepsEntry ==
  [][/\ \A t \in Threads :
          /\ (pc[t] = "backoff" /\ pc'[t] \notin {"backoff", "fetch"})
               => StatusRaised(t)
          /\ StatusRaised(t) =>
               /\ status' = status
               /\ cached_status' = cached_status
               /\ \A c \in Caches :
                    cached_status_time[c] = Zero => cached_status_time'[c] = Zero
     /\ \A c \in Caches :
          (Falsy(cached_status[c]) /\ ~Falsy(cached_status'[c]))
            => \E t \in Threads : cache(t) = c /\ StatusFetched(t)]_vars

\* A refresh of an entity has raised over a stale entry: the blob is
\* still in the cache, and still the entity's last one.
C5_Witness ==
  /\ AllIdle /\ ops = 2 /\ errors["update"] = 1
  /\ \E a \in Adapters :
       /\ last[a] = "failed"
       /\ cached_status[CacheOf(a)] \in Blobs
       /\ cached_status_time[CacheOf(a)] = Past
       /\ status[a] = cached_status[CacheOf(a)]

\* C6 -- failure semantics of set_status(): a call in its write loop
\* goes on in the loop or returns to the host, whatever the device does,
\* and one that was the only call running on its cache returns with the
\* entry of that cache empty (no blob, no time stamp).
C6_SetStatusReturns ==
  [][\A t \in Threads :
       pc[t] = "write" =>
         /\ pc'[t] \in {"write", "idle"}
         /\ (SetStatusReturned(t) /\ solo[t]) =>
              /\ cached_status'[cache(t)] = Empty
              /\ cached_status_time'[cache(t)] = Zero]_vars

\* A set_status() that gave up has returned on a cache a refresh had
\* filled before.
C6_Witness ==
  /\ AllIdle /\ ops = 2 /\ errors["set"] = 1
  /\ \E a \in Adapters :
       /\ last[a] = "ok"
       /\ invalidated[CacheOf(a)]
       /\ cached_status[CacheOf(a)] = Empty
       /\ cached_status_time[CacheOf(a)] = Zero

\* C7 -- no step of a refresh up to the end of its status() call, the
\* raise included, changes the state or the last blob of any entity, and
\* the raise makes the entity of the refresh, and no other, unavailable.
C7_FailedRefreshKeeps ==
  [][\A t \in Threads :
       /\ StatusStep(t) => state' = state /\ status' = status
       /\ StatusRaised(t) =>
            /\ available'[self[t]] = FALSE
            /\ \A a \in Adapters \ {self[t]} : available'[a] = available[a]]_vars

\* An entity whose refresh raised still knows its state.
C7_Witness ==
  /\ AllIdle /\ errors["update"] >= 1
  /\ \E a \in Adapters :
       /\ last[a] = "failed" /\ ~available[a]
       /\ state[a] \in {True, False}
       /\ HasSwitch(status[a], a)

\* C8 -- no step of turn_on/turn_off (the call, the two assignments of
\* set_status, its device writes, its return) changes the availability,
\* the state or the last blob of any entity; the state of an entity
\* changes in the extraction step of a refresh of that entity only.
C8_CommandKeeps ==
  [][/\ \A t \in Threads :
          CommandStep(t) => <<available, status, state>>' = <<available, status, state>>
     /\ \A a \in Adapters :
          state'[a] # state[a] =>
            \E t \in Threads :
              self[t] = a /\ pc[t] = "extract" /\ pc'[t] = "else"]_vars

\* A command has returned on an entity whose state a refresh had set.
C8_Witness ==
  /\ AllIdle /\ ops = 2
  /\ \E a \in Adapters :
       /\ invalidated[CacheOf(a)]
       /\ available[a]
       /\ state[a] \in {True, False}

\* C9 -- the availability of an entity is true exactly when its last
\* completed refresh succeeded: false before the first one completes,
\* false after a failed one, true again after a later one that succeeds.
C9_Available ==
  \A a \in Adapters : available[a] <=> last[a] = "ok"

\* An entity is available again after a refresh of it that raised.
C9_Witness ==
  /\ AllIdle /\ ops = 2 /\ errors["update"] = 1
  /\ \E a \in Adapters :
       /\ available[a]
       /\ \A b \in Adapters \ {a} : last[b] = "none"

\* C10 -- with the calls made one at a time and no set_status() between
\* them: two successful device fetches, by whichever entities of the
\* device, are at least 15 s apart.  Every entity has a cache of its own,
\* so the refresh of a second entity fetches again at once.
C10_OneFetchPerWindow ==
  [][\A t \in Threads :
       (StatusFetched(t) /\ fetched # Zero) => Now - fetched >= StaleTicks]_vars

\* C11 -- reading device_state_attributes of an entity whose last blob
\* lacks a data point the entity is set up with raises: the result is
\* no attribute set, neither one without the attribute nor one with a
\* value put in its place.
C11_MissingPointRaises ==
  \A a \in Adapters : \A n \in AttrNames :
    (/\ attr(a, n) # None
     /\ status[a] \in Blobs
     /\ attr(a, n) \notin DOMAIN dps(status[a]))
    => device_state_attributes(a).raised

\* The last blob of sw01 has its current but not its voltage, and the
\* read raises.
C11_Witness ==
  /\ AllIdle
  /\ HasPoint(status["sw01"], attr("sw01", "current"))
  /\ ~HasPoint(status["sw01"], attr("sw01", "voltage"))
  /\ device_state_attributes("sw01").raised

\* C12 -- no torn read: what update() is handed by a status() call that
\* returned is a blob of the device, never the empty entry that
\* set_status() leaves behind.
C12_NoEmptyReturn ==
  \A a \in Adapters : status[a] # Empty

\* No call of status() or of set_status() is in progress on the cache.
Quiet(c) ==
  \A t \in Threads :
    cache(t) = c => pc[t] \in {"idle", "extract", "else", "except"}

\* C13 -- the entry of a cache on which no status() and no set_status()
\* call is in progress has its time stamp unset exactly when its blob is
\* empty.
C13_StampIffBlob ==
  \A c \in Caches :
    Quiet(c) => (cached_status_time[c] = Zero <=> cached_status[c] = Empty)

\* C14 -- the entities of the device never have two device calls in
\* flight at once: no two threads working for different entities are
\* inside a fetch or a write at the same time.
C14_OneCallPerDevice ==
  \A t, u \in Threads :
    (t # u /\ self[t] # self[u]) =>
      ~((InFetch(t) \/ InWrite(t)) /\ (InFetch(u) \/ InWrite(u)))

\* C15 -- the lock of a cache is held only by a thread that is inside a
\* status() call on that cache, between its acquire and its return or
\* raise: once the call has returned or raised the lock is free.
C15_LockOnlyInStatus ==
  \A c \in Caches :
    lock[c] # 0 =>
      /\ cache(lock[c]) = c
      /\ pc[lock[c]] \in {"settle", "fetch", "backoff", "stamp", "return"}

\* A status() call has raised, no call is in progress, every lock is free.
C15_Witness ==
  /\ AllIdle
  /\ errors["update"] >= 1
  /\ \E a \in Adapters : last[a] = "failed"
  /\ \A c \in Caches : lock[c] = 0

\* C16 -- under a fair scheduler, with device calls that end, every call
\* that was started returns to the host in the end (by a return or by a
\* raise), a call waiting for the lock included.
C16_EveryCallEnds ==
  \A t \in Threads : (pc[t] # "idle") ~> (pc[t] = "idle")

\* A call waits for the lock while its holder sleeps between two failed
\* fetch attempts.
C16_Witness ==
  \E t, u \in Threads :
    /\ pc[t] = "acquire"
    /\ lock[cache(t)] = u
    /\ pc[u] = "backoff"

\* C17 -- the write loop of set_status(): the attempt under way is one
\* of the first five; another attempt follows a failed first or second
\* one only, with nothing written to the error log; the call leaves the
\* loop by returning, which after a failure it does at the third attempt
\* exactly, with an error record; so no fourth attempt is ever made.
C17_WriteAttempts ==
  [][\A t \in Threads :
       pc[t] = "write" =>
         /\ i[t] + 1 <= LoopRange
         /\ (pc'[t] = "write" /\ i'[t] # i[t]) =>
              /\ i'[t] = i[t] + 1
              /\ i[t] + 1 < GiveUpAt
              /\ errors' = errors
         /\ pc'[t] # "write" =>
              /\ pc'[t] = "idle"
              /\ errors'["set"] # errors["set"] => i[t] + 1 = GiveUpAt
         /\ (i[t] + 1 = GiveUpAt /\ i'[t] # i[t]) => pc'[t] = "idle"]_vars

\* The only call so far, a command, has given up and returned.
C17_Witness ==
  /\ AllIdle /\ ops = 1
  /\ errors["set"] = 1

\* C18 -- with the calls made one at a time: a status() call goes to the
\* device exactly when the blob of the entry is empty or its time stamp
\* is more than 15 s old (at 15 s exactly it does not); a fetch that
\* succeeds stores a blob of the device, the stamp that follows is the
\* present time and leaves that blob in place, and the call returns the
\* blob with that stamp on the entry; a call that did not fetch returns
\* the blob of the entry.
C18_FetchIffStale ==
  [][\A t \in Threads :
       /\ StatusTested(t) =>
            (pc'[t] = "settle" <=>
               (\/ cached_status[cache(t)] = Empty
                \/ Now - cached_status_time[cache(t)] > StaleTicks))
       /\ StatusFetched(t) => cached_status'[cache(t)] \in Blobs
       /\ (pc[t] = "stamp" /\ pc'[t] # "stamp") =>
            /\ cached_status'[cache(t)] = cached_status[cache(t)]
            /\ cached_status_time'[cache(t)] = Now
       /\ StatusReturned(t) =>
            /\ status'[self[t]] = cached_status[cache(t)]
            /\ cached_status[cache(t)] \in Blobs
            /\ i[t] >= 0 => cached_status_time[cache(t)] = Now]_vars

\* A call is served from an entry that is 15 s old exactly.
C18_Witness ==
  \E t \in Threads :
    /\ pc[t] = "return" /\ i[t] = -1
    /\ Now - cached_status_time[cache(t)] = StaleTicks

\* C19 -- with the calls made one at a time and none in progress: the
\* state of an entity that holds a blob is the value the blob has for the
\* entity's switch, and unknown (None) if the blob has none.
C19_StateOfBlob ==
  AllIdle =>
    \A a \in Adapters :
      status[a] \in Blobs =>
        state[a] = IF HasSwitch(status[a], a)
                     THEN dps(status[a])[switch_id(a)]
                     ELSE None

\* C20 -- with the calls made one at a time: no step of a status() call
\* other than the store of a fetched blob and the stamp after it changes
\* the blob or the time stamp of any entry (a stamp only grows older), so
\* a call that raises leaves the entry as it found it; after the raise
\* the entry still calls for a fetch, and an entry that calls for one
\* stops doing so only when a status() call on it stamps it.
C20_RaiseLeavesEntry ==
  [][/\ \A t \in Threads :
          /\ (StatusStep(t) /\ ~StatusFetched(t) /\ pc[t] # "stamp") =>
               /\ cached_status' = cached_status
               /\ \A c \in Caches :
                    cached_status_time'[c] =
                      Back(cached_status_time[c], elapsed')
          /\ StatusRaised(t) =>
               \/ cached_status'[cache(t)] = Empty
               \/ Now - cached_status_time'[cache(t)] > StaleTicks
     /\ \A c \in Caches :
          (NeedsRefresh(c) /\ ~NeedsRefresh(c)') =>
             \E t \in Threads :
               cache(t) = c /\ pc[t] = "stamp" /\ pc'[t] = "return"]_vars

\* Two refreshes in a row have raised over a stale blob, which is still
\* in the cache.
C20_Witness ==
  /\ AllIdle /\ ops = 3
  /\ errors["update"] = 2
  /\ \E c \in Caches :
       cached_status[c] \in Blobs /\ cached_status_time[c] = Past

=============================================================================
